---- MODULE Spec2Model ----
(***************************************************************************)
(* State machine of src/flashphoner-core.js: createSession builds a        *)
(* Session (the Connection) around one WebSocket, createStream builds      *)
(* Streams whose handler closures live in the session's                    *)
(* streamRefreshHandlers map (the Dispatch Registry).  Every action is one *)
(* run-to-completion JavaScript job: an API call, a WebSocket event        *)
(* handler, or the continuation of one promise of a negotiation chain.     *)
(* The module is taken from the state after Flashphoner.init() succeeded.  *)
(***************************************************************************)
EXTENDS Integers, Sequences, FiniteSets, Bags, TLC

\* ---------------------------------------------------------------- bounds
\* the streams created, callbacks registered, negotiations started and stream
\* frames received in one run
MaxOps == 3

\* the ids uuid.v1() hands out, in the order it hands them out
SessionIdSeq == <<"c1", "c2">>
StreamIdSeq == <<"m1", "m2">>
SessionIds == {SessionIdSeq[i] : i \in DOMAIN SessionIdSeq}
StreamIds == {StreamIdSeq[i] : i \in DOMAIN StreamIdSeq}
NoId == ""

\* ------------------------------------------------------------- constants
SESSION_STATUS == {"PENDING", "CONNECTED", "ESTABLISHED", "DISCONNECTED", "FAILED"}
STREAM_STATUS == {"NEW", "PUBLISHING", "PLAYING", "RESIZE", "STOPPED", "UNPUBLISHED", "FAILED"}

\* the statuses on which onSessionStatusChange tears the session down
SessionTerminal == {"DISCONNECTED", "FAILED"}
\* the statuses on which a stream handler releases the stream
StreamTerminal == {"FAILED", "STOPPED", "UNPUBLISHED"}

\* JavaScript undefined / null, for the string-valued fields
Undefined == "undefined"
\* an unset dimension.width / dimension.height (dimension = {})
NoDimension == 0

\* inputs of the environment
SessionEvents == {"ESTABLISHED", "DISCONNECTED", "FAILED"}
StreamEvents == {"PLAYING", "STOPPED", "FAILED"}
PushStatuses == STREAM_STATUS \ {"NEW"}
Tokens == {"T1"}
Names == {"cam1"}
RecordNames == {"rec123"}
Widths == {640, 1280}
Heights == {480}
Sdps == {Undefined, "", "v=0"}

\* the steps of a negotiation chain that wait for the media provider
PlaySteps == {"play:createConnection", "play:createOffer"}
PublishSteps == {"publish:getMediaAccess", "publish:createConnection", "publish:createOffer"}

VARIABLES sessions, sess, strm, sent, frames, fired, out, lastOp, uuids

vars == <<sessions, sess, strm, sent, frames, fired, out, lastOp, uuids>>

\* ------------------------------------------------------------ the objects
\* the closure of one createSession call
NewSession ==
    [created |-> FALSE, sessionStatus |-> "PENDING", authToken |-> Undefined,
     ws |-> "CONNECTING", callbacks |-> {}, streams |-> {},
     streamRefreshHandlers |-> <<>>,
     teardown |-> [done |-> FALSE, live |-> {}, withCallback |-> {}]]

\* the closure of one createStream call
NewStream(c, name, record) ==
    [created |-> TRUE, owner |-> c, name_ |-> name, status_ |-> "NEW",
     published_ |-> FALSE, record_ |-> record, recordFileName |-> Undefined,
     dimension |-> [width |-> NoDimension, height |-> NoDimension],
     mediaConnection |-> Undefined, remoteSdp |-> FALSE, callbacks |-> {},
     tasks |-> EmptyBag, negotiations |-> 0, failNotified |-> 0, failedFired |-> 0]

NoStream == [NewStream(NoId, "", FALSE) EXCEPT !.created = FALSE]

\* streamInfo objects handed to a stream handler
StreamInfo(status, recordName, w, h) ==
    [absent |-> FALSE, status |-> status, recordName |-> recordName,
     playerVideoWidth |-> w, playerVideoHeight |-> h]
NullInfo == [StreamInfo(Undefined, Undefined, NoDimension, NoDimension) EXCEPT !.absent = TRUE]
\* {status: STREAM_STATUS.FAILED}
FailedInfo == StreamInfo("FAILED", Undefined, NoDimension, NoDimension)

RECURSIVE Sum(_, _)
Sum(f, S) == IF S = {} THEN 0 ELSE LET x == CHOOSE y \in S : TRUE IN f[x] + Sum(f, S \ {x})

\* the keys of an insertion-ordered object, and delete obj[key]
Keys(seq) == {seq[i] : i \in DOMAIN seq}
Delete(seq, key) == SelectSeq(seq, LAMBDA k : k # key)


\* what the last job was: the call or event, the session or stream it was for,
\* and the way it ended: "ok", or the message of the exception that left it
Op(op, id, result) == [op |-> op, id |-> id, result |-> result]

\* TypeError: Cannot read property ... of undefined / of null
CannotRead == "Cannot read property"
\* a frame for a mediaSessionId that has no handler
NotFound == "Stream not found"

\* --------------------------------------------------- the world of one job
\* A job reads the state into a record, the helpers below transform it, and the
\* action commits it.  threw is set when an exception leaves the job, dropped
\* when a frame finds no handler for its mediaSessionId.
World ==
    [sessions |-> sessions, sess |-> sess, strm |-> strm, sent |-> sent,
     frames |-> frames, fired |-> <<>>, out |-> <<>>, threw |-> FALSE,
     dropped |-> FALSE]

Message(message, id, published, status, record) ==
    [message |-> message, id |-> id, published |-> published, status |-> status,
     record |-> record]

\* WebSocket.send: InvalidStateError while CONNECTING, queued for transmission
\* while OPEN, silently discarded once the socket is closing or closed.
\* out holds the frames the job transmitted, sent counts the frames transmitted
\* so far by message name and id.
send(S, c, msg) ==
    CASE S.sess[c].ws = "OPEN" ->
             [S EXCEPT !.sent = @ (+) SetToBag({<<msg.message, msg.id>>}),
                       !.out = Append(@, msg)]
      [] S.sess[c].ws = "CONNECTING" -> [S EXCEPT !.threw = TRUE]
      [] OTHER -> S

\* The states of the WebSocket: its readyState, with CLOSING split into CLOSING
\* (closing handshake of an open socket, frames may still arrive) and ABORTED
\* (closed before it opened, its error and close events are to come), and CLOSED
\* split into ERRORED (the error event is delivered, the close event is to come)
\* and CLOSED (the close event is delivered).
WebSocketStates == {"CONNECTING", "OPEN", "CLOSING", "ABORTED", "ERRORED", "CLOSED"}

\* WebSocket.close: starts the closing handshake of an open socket, fails a
\* connecting one, and does nothing otherwise.
WebSocketClose(readyState) ==
    CASE readyState = "OPEN" -> "CLOSING"
      [] readyState = "CONNECTING" -> "ABORTED"
      [] OTHER -> readyState

\* the value an intermediate result has, taken once
Only(S) == CHOOSE x \in S : TRUE

\* a release that calls mediaConnection.close() before the two deletes
ReleaseStreamCloseFirst(st) ==
    IF st.mediaConnection = Undefined
    THEN [stream |-> st, deleteStream |-> FALSE, deleteHandler |-> FALSE, threw |-> TRUE,
          fired |-> FALSE]
    ELSE [stream |-> [st EXCEPT !.mediaConnection = "closed"], deleteStream |-> TRUE,
          deleteHandler |-> TRUE, threw |-> FALSE, fired |-> FALSE]

\* a release that leaves the handler in streamRefreshHandlers
ReleaseStreamKeepHandler(st) ==
    IF st.mediaConnection = Undefined
    THEN [stream |-> st, deleteStream |-> TRUE, deleteHandler |-> FALSE, threw |-> TRUE,
          fired |-> FALSE]
    ELSE [stream |-> [st EXCEPT !.mediaConnection = "closed"], deleteStream |-> TRUE,
          deleteHandler |-> FALSE, threw |-> FALSE, fired |-> FALSE]

\* a release that leaves the stream in streams
ReleaseStreamKeepStream(st) ==
    IF st.mediaConnection = Undefined
    THEN [stream |-> st, deleteStream |-> FALSE, deleteHandler |-> TRUE, threw |-> TRUE,
          fired |-> FALSE]
    ELSE [stream |-> [st EXCEPT !.mediaConnection = "closed"], deleteStream |-> FALSE,
          deleteHandler |-> TRUE, threw |-> FALSE, fired |-> FALSE]

\* the release branch of a stream handler: delete streams[id_], delete
\* streamRefreshHandlers[id_], then mediaConnection.close(), which is a
\* TypeError on an undefined mediaConnection
ReleaseStream(st) ==
    IF st.mediaConnection = Undefined
    THEN [stream |-> st, deleteStream |-> TRUE, deleteHandler |-> TRUE, threw |-> TRUE,
          fired |-> FALSE]
    ELSE [stream |-> [st EXCEPT !.mediaConnection = "closed"], deleteStream |-> TRUE,
          deleteHandler |-> TRUE, threw |-> FALSE, fired |-> FALSE]

\* callbacks[status_] && callbacks[status_](stream), after the handler call r
FireStreamCallback(r) ==
    IF r.stream.status_ \in r.stream.callbacks
    THEN [r EXCEPT !.stream.failedFired = IF r.stream.status_ = "FAILED" THEN @ + 1 ELSE @,
                   !.fired = TRUE]
    ELSE r

\* what a handler call leaves when it touches neither table
Kept(st, threw) ==
    [stream |-> st, deleteStream |-> FALSE, deleteHandler |-> FALSE, threw |-> threw,
     fired |-> FALSE]

\* an update that stores the recording name whether or not recording was asked for
UpdateStreamAnyRecord(st, streamInfo) ==
    [st EXCEPT !.status_ = streamInfo.status,
               !.recordFileName = IF streamInfo.status = "PUBLISHING"
                                  THEN streamInfo.recordName
                                  ELSE @,
               !.dimension = IF streamInfo.status = "RESIZE"
                             THEN [width |-> streamInfo.playerVideoWidth,
                                   height |-> streamInfo.playerVideoHeight]
                             ELSE @]

\* status_ = streamInfo.status, then the PUBLISHING and RESIZE branches
UpdateStream(st, streamInfo) ==
    [st EXCEPT !.status_ = streamInfo.status,
               !.recordFileName = IF streamInfo.status = "PUBLISHING" /\ st.record_
                                  THEN streamInfo.recordName
                                  ELSE @,
               !.dimension = IF streamInfo.status = "RESIZE"
                             THEN [width |-> streamInfo.playerVideoWidth,
                                   height |-> streamInfo.playerVideoHeight]
                             ELSE @]

\* a handler without the release branch
ReleasedNever(st) == Kept(st, FALSE)

\* the release branch, taken on a terminal status_
Released(st) ==
    IF st.status_ \in StreamTerminal THEN ReleaseStream(st) ELSE Kept(st, FALSE)

\* streamRefreshHandlers[id_] = function(streamInfo, sdp)
streamRefreshHandler(st, streamInfo, sdp) ==
    IF sdp # Undefined /\ sdp # ""
    THEN IF st.mediaConnection = Undefined
         THEN Kept(st, TRUE)
         ELSE Kept([st EXCEPT !.remoteSdp = TRUE], FALSE)
    ELSE IF streamInfo.absent
    THEN Kept(st, TRUE)
    ELSE Only({IF rel.threw THEN rel ELSE FireStreamCallback(rel) :
               rel \in {Released(UpdateStream(st, streamInfo))}})

\* one call of streamRefreshHandlers[s](streamInfo, sdp), applied to the world
InvokeHandler(S, s, streamInfo, sdp) ==
    Only({[S EXCEPT !.strm[s] = r.stream,
                    !.sess[r.stream.owner].streams = IF r.deleteStream THEN @ \ {s} ELSE @,
                    !.sess[r.stream.owner].streamRefreshHandlers =
                        IF r.deleteHandler THEN Delete(@, s) ELSE @,
                    !.fired = IF r.fired
                              THEN Append(@, [kind |-> "stream", id |-> s,
                                              status |-> r.stream.status_])
                              ELSE @,
                    !.threw = r.threw] :
          r \in {streamRefreshHandler(S.strm[s], streamInfo, sdp)}})

\* for (var prop in streamRefreshHandlers) handler({status: FAILED}), in the
\* order the handlers were inserted; an exception leaves the loop
RECURSIVE FailStreams(_, _)
FailStreams(S, todo) ==
    IF todo = <<>>
    THEN S
    ELSE Only({IF S1.threw THEN S1 ELSE FailStreams(S1, Tail(todo)) :
               S1 \in {InvokeHandler([S EXCEPT !.strm[Head(todo)].failNotified = @ + 1],
                                     Head(todo), FailedInfo, Undefined)}})

\* sessionStatus = newStatus; teardown remembers the streams that were live and
\* those with a FAILED callback when the session first entered a terminal status
Entered(S, c, newStatus) ==
    [S EXCEPT !.sess[c].sessionStatus = newStatus,
              !.sess[c].teardown =
                  IF newStatus \in SessionTerminal /\ ~@.done
                  THEN [done |-> TRUE, live |-> Keys(S.sess[c].streamRefreshHandlers),
                        withCallback |->
                            {s \in Keys(S.sess[c].streamRefreshHandlers) :
                                 "FAILED" \in S.strm[s].callbacks}]
                  ELSE @]

\* a teardown that empties the sessions map instead of deleting its own entry
TeardownAll(S, c) ==
    Only({IF S1.threw THEN S1 ELSE [S1 EXCEPT !.sessions = {}] :
          S1 \in {FailStreams(S, S.sess[c].streamRefreshHandlers)}})

\* the branch of DISCONNECTED and FAILED: fail the streams, then
\* delete sessions[id_]
Teardown(S, c) ==
    Only({IF S1.threw THEN S1 ELSE [S1 EXCEPT !.sessions = @ \ {c}] :
          S1 \in {FailStreams(S, S.sess[c].streamRefreshHandlers)}})

\* callbacks[sessionStatus] && callbacks[sessionStatus](session)
FireSessionCallback(S, c) ==
    IF ~S.threw /\ S.sess[c].sessionStatus \in S.sess[c].callbacks
    THEN [S EXCEPT !.fired = Append(@, [kind |-> "session", id |-> c,
                                        status |-> S.sess[c].sessionStatus])]
    ELSE S

\* function onSessionStatusChange(newStatus)
onSessionStatusChange(S, c, newStatus) ==
    Only({FireSessionCallback(S1, c) :
          S1 \in {IF newStatus \in SessionTerminal
                  THEN Teardown(Entered(S, c, newStatus), c)
                  ELSE Entered(S, c, newStatus)}})

\* the end of a job: the world becomes the state
Commit(job, op, id) ==
    \E S \in {job} :
        /\ sessions' = S.sessions
        /\ sess' = S.sess
        /\ strm' = S.strm
        /\ sent' = S.sent
        /\ frames' = S.frames
        /\ fired' = S.fired
        /\ out' = S.out
        /\ lastOp' = Op(op, id, IF S.threw THEN CannotRead
                                 ELSE IF S.dropped THEN NotFound ELSE "ok")
        /\ UNCHANGED uuids

\* a call that throws before it changes anything
Throw(op, id, error) ==
    /\ UNCHANGED <<sessions, sess, strm, sent, frames, uuids>>
    /\ fired' = <<>>
    /\ out' = <<>>
    /\ lastOp' = Op(op, id, error)

\* the session of stream s, and the ids that have a handler in session c
Owner(s) == strm[s].owner
Registry(c) == Keys(sess[c].streamRefreshHandlers)

\* how much of the bounds the run has used: the callbacks registered and the
\* negotiations started, over all sessions and streams
Registered ==
    Sum([c \in SessionIds |-> Cardinality(sess[c].callbacks)], SessionIds)
    + Sum([s \in StreamIds |-> Cardinality(strm[s].callbacks)], StreamIds)
Started == Sum([s \in StreamIds |-> strm[s].negotiations], StreamIds)
Created == Cardinality({s \in StreamIds : strm[s].created})
\* the stop() calls that transmitted a frame
Stops ==
    Sum([s \in StreamIds |-> CopiesIn(<<"stopStream", s>>, sent)
                              + CopiesIn(<<"unPublishStream", s>>, sent)], StreamIds)
\* the calls and stream frames of the run so far that count against MaxOps
Effort == Created + Registered + Started + Stops + frames

\* ------------------------------------------------------------ API: session
\* uuid.v1() of the next createSession / createStream; uuids holds the ids
\* the createSession calls of the run are still to get
FreshSession == Head(uuids)
FreshStream ==
    StreamIdSeq[Cardinality({s \in StreamIds : strm[s].created}) + 1]

\* Flashphoner.createSession(options) with options.urlServer
CreateSession ==
    /\ uuids # <<>>
    /\ LET c == FreshSession
       IN /\ sessions' = sessions \cup {c}
          /\ uuids' = Tail(uuids)
          /\ sess' = [sess EXCEPT ![c] = [NewSession EXCEPT !.created = TRUE]]
          /\ UNCHANGED <<strm, sent, frames>>
          /\ fired' = <<>>
          /\ out' = <<>>
          /\ lastOp' = Op("createSession", c, "ok")

\* session.on(event, callback)
SessionOn(c, event) ==
    /\ sess[c].created
    /\ event \in sess[c].callbacks \/ Effort < MaxOps
    /\ sess' = [sess EXCEPT ![c].callbacks = @ \cup {event}]
    /\ UNCHANGED <<sessions, strm, sent, frames>>
    /\ fired' = <<>>
    /\ out' = <<>>
    /\ lastOp' = Op("session.on", c, "ok")
    /\ UNCHANGED uuids

\* a disconnect that reports DISCONNECTED itself instead of leaving it to onclose
disconnectAndNotify(S, c) ==
    onSessionStatusChange([S EXCEPT !.sess[c].ws = WebSocketClose(@)], c, "DISCONNECTED")

\* session.disconnect(), applied to the world
disconnect(S, c) ==
    [S EXCEPT !.sess[c].ws = WebSocketClose(@)]

\* session.disconnect()
Disconnect(c) ==
    /\ sess[c].created
    /\ Commit(disconnect(World, c), "disconnect", c)

\* checks that turn away only a session that has ended
CreateStreamErrorEndedOnly(sessionStatus, options) ==
    CASE sessionStatus \in SessionTerminal -> "Invalid session state"
      [] options.absent -> "options must be provided"
      [] options.name = Undefined -> "options.name must be provided"
      [] OTHER -> "ok"

\* the checks createStream makes before it builds the stream
CreateStreamError(sessionStatus, options) ==
    CASE sessionStatus # "ESTABLISHED" -> "Invalid session state"
      [] options.absent -> "options must be provided"
      [] options.name = Undefined -> "options.name must be provided"
      [] OTHER -> "ok"

\* the options objects a caller passes to createStream
StreamOptions ==
    {[absent |-> TRUE, name |-> Undefined, record |-> FALSE]}
    \cup [absent : {FALSE}, name : Names \cup {Undefined}, record : BOOLEAN]

\* session.createStream(options)
CreateStream(c, options) ==
    /\ sess[c].created
    /\ LET error == CreateStreamError(sess[c].sessionStatus, options)
       IN IF error # "ok"
          THEN Throw("createStream", c, error)
          ELSE /\ \E s \in StreamIds : ~strm[s].created
               /\ Effort < MaxOps
               /\ LET s == FreshStream
                  IN /\ strm' = [strm EXCEPT ![s] = NewStream(c, options.name, options.record)]
                     /\ sess' = [sess EXCEPT ![c].streams = @ \cup {s},
                                             ![c].streamRefreshHandlers = Append(@, s)]
                     /\ UNCHANGED <<sessions, sent, frames>>
                     /\ fired' = <<>>
                     /\ out' = <<>>
                     /\ lastOp' = Op("createStream", c, "ok")
                     /\ UNCHANGED uuids

\* session.getStream(streamId): the stream, or nothing
getStream(c, streamId) == sess[c].streams \cap {streamId}

\* ------------------------------------------------------------- API: stream
\* stream.on(event, callback)
StreamOn(s, event) ==
    /\ strm[s].created
    /\ event \in strm[s].callbacks \/ Effort < MaxOps
    /\ strm' = [strm EXCEPT ![s].callbacks = @ \cup {event}]
    /\ UNCHANGED <<sessions, sess, sent, frames>>
    /\ fired' = <<>>
    /\ out' = <<>>
    /\ lastOp' = Op("stream.on", s, "ok")
    /\ UNCHANGED uuids

\* a check that turns away only the streams that have ended
InvalidStreamStateEndedOnly(st) == st.status_ \in StreamTerminal

\* the precondition of play() and publish()
InvalidStreamState(st) == st.status_ # "NEW"

\* stream.play(): the check, then MediaProvider.createConnection is started
Play(s) ==
    /\ strm[s].created
    /\ IF InvalidStreamState(strm[s])
       THEN Throw("play", s, "Invalid stream state")
       ELSE /\ Effort < MaxOps
            /\ strm' = [strm EXCEPT ![s].tasks = @ (+) SetToBag({"play:createConnection"}),
                                    ![s].negotiations = @ + 1]
            /\ UNCHANGED <<sessions, sess, sent, frames>>
            /\ fired' = <<>>
            /\ out' = <<>>
            /\ lastOp' = Op("play", s, "ok")
            /\ UNCHANGED uuids

\* stream.publish(): the check, then MediaProvider.getMediaAccess is started
Publish(s) ==
    /\ strm[s].created
    /\ IF InvalidStreamState(strm[s])
       THEN Throw("publish", s, "Invalid stream state")
       ELSE /\ Effort < MaxOps
            /\ strm' = [strm EXCEPT ![s].tasks = @ (+) SetToBag({"publish:getMediaAccess"}),
                                    ![s].negotiations = @ + 1]
            /\ UNCHANGED <<sessions, sess, sent, frames>>
            /\ fired' = <<>>
            /\ out' = <<>>
            /\ lastOp' = Op("publish", s, "ok")
            /\ UNCHANGED uuids

\* a stop that asks the server for stopStream whatever the published flag is
stopAsPlayer(S, s) ==
    send(S, S.strm[s].owner,
         Message("stopStream", s, S.strm[s].published_, S.strm[s].status_, FALSE))

\* stream.stop(), applied to the world
stop(S, s) ==
    send(S, S.strm[s].owner,
         Message(IF S.strm[s].published_ THEN "unPublishStream" ELSE "stopStream",
                 s, S.strm[s].published_, S.strm[s].status_, FALSE))

\* stream.stop()
Stop(s) ==
    /\ strm[s].created
    /\ sess[Owner(s)].ws = "OPEN" => Effort < MaxOps
    /\ Commit(stop(World, s), "stop", s)

\* stream.getRecordInfo()
getRecordInfo(st) == st.recordFileName

\* a getStreamDimension that answers on every stream
getStreamDimensionAlways(st) == [threw |-> FALSE, dimension |-> st.dimension]

\* stream.getStreamDimension(): the dimension, or the Error of a published stream
getStreamDimension(st) ==
    IF ~st.published_
    THEN [threw |-> FALSE, dimension |-> st.dimension]
    ELSE [threw |-> TRUE, dimension |-> Undefined]

\* the step of a negotiation chain that follows a fulfilled promise
NextStep(step) ==
    CASE step = "play:createConnection" -> {"play:createOffer"}
      [] step = "publish:getMediaAccess" -> {"publish:createConnection"}
      [] step = "publish:createConnection" -> {"publish:createOffer"}
      [] OTHER -> {}

\* the then-callback that runs when the promise of step is fulfilled
Continuation(S, s, step) ==
    LET st == S.strm[s]
        c == st.owner
        S1 == [S EXCEPT !.strm[s].tasks = (@ (-) SetToBag({step})) (+) SetToBag(NextStep(step))]
    IN CASE step = "publish:getMediaAccess" ->
              [S1 EXCEPT !.strm[s].published_ = TRUE]
         [] step \in {"play:createConnection", "publish:createConnection"} ->
              [S1 EXCEPT !.strm[s].mediaConnection = "open", !.strm[s].remoteSdp = FALSE]
         [] step = "play:createOffer" ->
              send(S1, c, Message("playStream", s, st.published_, st.status_, FALSE))
         [] step = "publish:createOffer" ->
              send(S1, c, Message("publishStream", s, st.published_, st.status_, st.record_))

\* a promise of the media provider is fulfilled
Resolve(s, step) ==
    /\ strm[s].created
    /\ BagIn(step, strm[s].tasks)
    /\ Commit(Continuation(World, s, step), "resolve", s)

\* a promise of the media provider is rejected: the chain ends
Reject(s, step) ==
    /\ strm[s].created
    /\ BagIn(step, strm[s].tasks)
    /\ strm' = [strm EXCEPT ![s].tasks = @ (-) SetToBag({step})]
    /\ UNCHANGED <<sessions, sess, sent, frames>>
    /\ fired' = <<>>
    /\ out' = <<>>
    /\ lastOp' = Op("reject", s, "ok")
    /\ UNCHANGED uuids

\* ------------------------------------------------------- WebSocket events
\* wsConnection.onopen
WsOpen(c) ==
    /\ sess[c].created
    /\ sess[c].ws = "CONNECTING"
    /\ Commit(send(onSessionStatusChange([World EXCEPT !.sess[c].ws = "OPEN"], c, "CONNECTED"),
                   c, Message("connection", c, FALSE, Undefined, FALSE)),
              "onopen", c)

\* wsConnection.onerror: the socket has failed, its close event is still to come
WsError(c) ==
    /\ sess[c].created
    /\ sess[c].ws \in {"CONNECTING", "OPEN", "CLOSING", "ABORTED"}
    /\ LET S0 == [World EXCEPT !.sess[c].ws = "ERRORED"]
       IN Commit(onSessionStatusChange(S0, c, "FAILED"), "onerror", c)

\* wsConnection.onclose
WsClose(c) ==
    /\ sess[c].created
    /\ sess[c].ws \in {"OPEN", "CLOSING", "ERRORED"}
    /\ LET S0 == [World EXCEPT !.sess[c].ws = "CLOSED"]
       IN Commit(onSessionStatusChange(S0, c, "DISCONNECTED"), "onclose", c)

\* a frame can arrive while the socket is open or closing
Receiving(c) == sess[c].created /\ sess[c].ws \in {"OPEN", "CLOSING"}

\* a frame addressed to a stream arrives
StreamFrame(S) == [S EXCEPT !.frames = @ + 1]

\* a getUserData case that changes the status and forgets the token
onGetUserDataStatusOnly(S, c, authToken) ==
    onSessionStatusChange(S, c, "ESTABLISHED")

\* case 'getUserData'
onGetUserData(S, c, authToken) ==
    onSessionStatusChange([S EXCEPT !.sess[c].authToken = authToken], c, "ESTABLISHED")

\* wsConnection.onmessage, message getUserData
GetUserData(c, authToken) ==
    /\ Receiving(c)
    /\ Commit(onGetUserData(World, c, authToken), "getUserData", c)

\* a setRemoteSDP case that fails the stream it is for
onSetRemoteSDPAsFailure(S, c, mediaSessionId, sdp) ==
    IF mediaSessionId \in Keys(S.sess[c].streamRefreshHandlers)
    THEN InvokeHandler(S, mediaSessionId, FailedInfo, Undefined)
    ELSE [S EXCEPT !.dropped = TRUE]

\* case 'setRemoteSDP'
onSetRemoteSDP(S, c, mediaSessionId, sdp) ==
    IF mediaSessionId \in Keys(S.sess[c].streamRefreshHandlers)
    THEN InvokeHandler(S, mediaSessionId, NullInfo, sdp)
    ELSE [S EXCEPT !.dropped = TRUE]

\* wsConnection.onmessage, message setRemoteSDP
SetRemoteSDP(c, mediaSessionId, sdp) ==
    /\ Receiving(c)
    /\ Effort < MaxOps
    /\ Commit(onSetRemoteSDP(StreamFrame(World), c, mediaSessionId, sdp),
              "setRemoteSDP", mediaSessionId)

\* a status case for which a frame without a handler is fatal to the session
onNotifyStreamStatusEventFatal(S, c, obj) ==
    IF obj.mediaSessionId \in Keys(S.sess[c].streamRefreshHandlers)
    THEN InvokeHandler(S, obj.mediaSessionId, obj.info, Undefined)
    ELSE onSessionStatusChange([S EXCEPT !.dropped = TRUE], c, "FAILED")

\* case 'notifyVideoFormat', case 'notifyStreamStatusEvent'
onNotifyStreamStatusEvent(S, c, obj) ==
    IF obj.mediaSessionId \in Keys(S.sess[c].streamRefreshHandlers)
    THEN InvokeHandler(S, obj.mediaSessionId, obj.info, Undefined)
    ELSE [S EXCEPT !.dropped = TRUE]

\* wsConnection.onmessage, message notifyStreamStatusEvent or notifyVideoFormat
NotifyStreamStatusEvent(c, mediaSessionId, status, recordName, w, h) ==
    /\ Receiving(c)
    /\ Effort < MaxOps
    /\ LET obj == [mediaSessionId |-> mediaSessionId,
                   info |-> StreamInfo(status, recordName, w, h)]
       IN Commit(onNotifyStreamStatusEvent(StreamFrame(World), c, obj),
                 "notifyStreamStatusEvent", mediaSessionId)


\* ------------------------------------------------------------------ claims
\* the state a call may not touch when it fails
Frame == <<sessions, sess, strm, sent, frames>>
\* the callbacks of stream s among those a job fired
StreamCallbacks(log, s) == {i \in DOMAIN log : log[i].kind = "stream" /\ log[i].id = s}

\* C1: once a session has entered FAILED or DISCONNECTED it is out of the
\* sessions registry, its stream table is empty and every stream it owned when
\* it entered that status is FAILED.
TeardownClearsConnection ==
    \A c \in SessionIds :
        sess[c].teardown.done =>
            /\ c \notin sessions
            /\ sess[c].streams = {}
            /\ \A s \in sess[c].teardown.live : strm[s].status_ = "FAILED"

\* C2: FAILED and DISCONNECTED are absorbing: no step changes the status of a
\* session that is in one of them.
TerminalStatusAbsorbing ==
    [][\A c \in SessionIds :
          sess[c].sessionStatus \in SessionTerminal =>
              sess'[c].sessionStatus = sess[c].sessionStatus]_vars

\* C3: at most one play() or publish() call of a stream passes the status check
\* and starts a negotiation, and at most one playStream or publishStream frame
\* is transmitted for its id.
SingleNegotiation ==
    \A s \in StreamIds :
        /\ strm[s].negotiations <= 1
        /\ CopiesIn(<<"playStream", s>>, sent) + CopiesIn(<<"publishStream", s>>, sent) <= 1

\* C4: play() or publish() on a stream whose status is not NEW throws, sends
\* nothing, starts no provider operation and leaves the stream, the stream
\* table and the handler registry as they were.
InvalidStateRejected ==
    [][\A s \in StreamIds :
          (/\ strm[s].created
           /\ strm[s].status_ # "NEW"
           /\ lastOp'.op \in {"play", "publish"}
           /\ lastOp'.id = s)
          => /\ lastOp'.result = "Invalid stream state"
             /\ UNCHANGED Frame
             /\ out' = <<>>
             /\ fired' = <<>>]_vars

InvalidStateRejectedWitness ==
    /\ lastOp.op \in {"play", "publish"}
    /\ lastOp.result = "Invalid stream state"
    /\ \E s \in StreamIds :
          /\ lastOp.id = s
          /\ strm[s].status_ \in {"PLAYING", "PUBLISHING"}
          /\ s \in Registry(Owner(s))

\* C5: createStream on a session that is not ESTABLISHED, or without options
\* or options.name, throws and adds nothing to the stream table or to the
\* handler registry.
CreateStreamRejected ==
    [][\A c \in SessionIds, options \in StreamOptions :
          (/\ lastOp'.op = "createStream"
           /\ \/ sess[c].sessionStatus # "ESTABLISHED"
              \/ options.absent
              \/ options.name = Undefined
           /\ CreateStream(c, options))
          => /\ lastOp'.op = "createStream"
             /\ lastOp'.result # "ok"
             /\ sess[c].sessionStatus # "ESTABLISHED"
                    => lastOp'.result = "Invalid session state"
             /\ UNCHANGED Frame
             /\ out' = <<>>
             /\ fired' = <<>>]_vars

CreateStreamRejectedWitness ==
    /\ lastOp.op = "createStream"
    /\ \E c \in SessionIds :
          /\ lastOp.id = c
          /\ lastOp.result = "Invalid session state"
          /\ sess[c].sessionStatus = "CONNECTED"
          /\ sess[c].streams = {}
          /\ sess[c].streamRefreshHandlers = <<>>

\* C6: a stream that was created has a handler in the registry of its session
\* exactly while its status is none of FAILED, STOPPED, UNPUBLISHED, and the
\* registry holds no id twice.
DispatchEntryIffLive ==
    /\ \A s \in StreamIds :
          strm[s].created =>
              (s \in Registry(Owner(s)) <=> strm[s].status_ \notin StreamTerminal)
    /\ \A c \in SessionIds :
          Cardinality(Registry(c)) = Len(sess[c].streamRefreshHandlers)

DispatchEntryIffLiveWitness ==
    \E s \in StreamIds, r \in StreamIds :
        /\ strm[s].created /\ strm[r].created
        /\ strm[s].status_ \in StreamTerminal
        /\ s \notin Registry(Owner(s))
        /\ strm[r].status_ \notin StreamTerminal
        /\ r \in Registry(Owner(r))

\* C7: once a stream has a terminal status, getStream does not return it and no
\* later step changes its status, recording name or dimensions or fires one of
\* its callbacks.
TerminalStreamUnrouted ==
    [][\A s \in StreamIds :
          (strm[s].created /\ strm[s].status_ \in StreamTerminal)
          => /\ getStream(Owner(s), s) = {}
             /\ strm'[s].status_ = strm[s].status_
             /\ strm'[s].recordFileName = strm[s].recordFileName
             /\ strm'[s].dimension = strm[s].dimension
             /\ StreamCallbacks(fired', s) = {}]_vars

TerminalStreamUnroutedWitness ==
    /\ lastOp.op \in {"notifyStreamStatusEvent", "setRemoteSDP"}
    /\ lastOp.result = NotFound
    /\ \E s \in StreamIds :
          /\ lastOp.id = s
          /\ strm[s].created
          /\ strm[s].status_ \in {"STOPPED", "UNPUBLISHED"}

\* C8: every stream that was live when its session first entered FAILED or
\* DISCONNECTED has had its handler called with the failure notification
\* exactly once, and its FAILED callback, if one was registered then, has fired
\* exactly once.
TeardownFailsEachStreamOnce ==
    \A c \in SessionIds :
        sess[c].teardown.done =>
            \A s \in sess[c].teardown.live :
                /\ strm[s].failNotified = 1
                /\ s \in sess[c].teardown.withCallback => strm[s].failedFired = 1

\* C9: a getUserData frame with auth token T stores T, makes the session
\* ESTABLISHED and fires the ESTABLISHED callback, if one is registered, once
\* and with the session; an ESTABLISHED session has an auth token stored.
GetUserDataEstablishes ==
    [][/\ \A c \in SessionIds, T \in Tokens :
             GetUserData(c, T)
             => /\ lastOp'.op = "getUserData"
                /\ sess'[c].authToken = T
                /\ sess'[c].sessionStatus = "ESTABLISHED"
                /\ fired' = IF "ESTABLISHED" \in sess[c].callbacks
                            THEN <<[kind |-> "session", id |-> c, status |-> "ESTABLISHED"]>>
                            ELSE <<>>
       /\ \A c \in SessionIds :
             sess'[c].sessionStatus = "ESTABLISHED" => sess'[c].authToken \in Tokens]_vars

GetUserDataEstablishesWitness ==
    /\ lastOp.op = "getUserData"
    /\ \E c \in SessionIds :
          /\ lastOp.id = c
          /\ sess[c].sessionStatus = "ESTABLISHED"
          /\ sess[c].authToken \in Tokens
          /\ fired = <<[kind |-> "session", id |-> c, status |-> "ESTABLISHED"]>>

\* C10: disconnect() on a session whose WebSocket is already closed changes no
\* session or stream, fires no callback and sends nothing.
DisconnectIdempotent ==
    [][\A c \in SessionIds :
          (/\ lastOp'.op = "disconnect"
           /\ lastOp'.id = c
           /\ sess[c].ws \in {"ERRORED", "CLOSED"})
          => /\ UNCHANGED Frame
             /\ out' = <<>>
             /\ fired' = <<>>]_vars

DisconnectIdempotentWitness ==
    /\ lastOp.op = "disconnect"
    /\ \E c \in SessionIds :
          /\ lastOp.id = c
          /\ sess[c].ws = "CLOSED"
          /\ sess[c].sessionStatus = "DISCONNECTED"
          /\ "DISCONNECTED" \in sess[c].callbacks

\* C11: the recording name of a stream is absent until a PUBLISHING push
\* reaches the stream; that push sets it to the push's recordName if the stream
\* was created with record, and a stream created without record never has one.
RecordNameCaptured ==
    [][\A s \in StreamIds :
          /\ ~strm'[s].record_ => getRecordInfo(strm'[s]) = Undefined
          /\ \A c \in SessionIds, recordName \in RecordNames, w \in Widths, h \in Heights :
                (/\ lastOp'.op = "notifyStreamStatusEvent"
                 /\ s \in Registry(c)
                 /\ NotifyStreamStatusEvent(c, s, "PUBLISHING", recordName, w, h))
                => getRecordInfo(strm'[s]) = IF strm[s].record_ THEN recordName ELSE Undefined
          /\ getRecordInfo(strm'[s]) # getRecordInfo(strm[s])
                => /\ lastOp'.op = "notifyStreamStatusEvent"
                   /\ lastOp'.id = s
                   /\ strm'[s].status_ = "PUBLISHING"]_vars

RecordNameCapturedWitness ==
    /\ lastOp.op = "notifyStreamStatusEvent"
    /\ \E s \in StreamIds :
          /\ lastOp.id = s
          /\ strm[s].record_
          /\ strm[s].status_ = "PUBLISHING"
          /\ getRecordInfo(strm[s]) \in RecordNames

SessionCallback(c, status) == [kind |-> "session", id |-> c, status |-> status]
StreamCallback(s, status) == [kind |-> "stream", id |-> s, status |-> status]

\* C13: when a transport error or close makes a session FAILED or DISCONNECTED
\* and a callback is registered for that status, the callback fires, last in
\* the job, and by then every stream that had a handler is FAILED and the
\* session is out of the sessions registry.
TeardownThenCallback ==
    [][\A c \in SessionIds :
          (/\ lastOp'.op \in {"onerror", "onclose"}
           /\ lastOp'.id = c
           /\ sess'[c].sessionStatus \in sess[c].callbacks)
          => /\ fired' # <<>>
             /\ fired'[Len(fired')] = SessionCallback(c, sess'[c].sessionStatus)
             /\ c \notin sessions'
             /\ \A s \in Registry(c) : strm'[s].status_ = "FAILED"]_vars

\* C14: a setRemoteSDP frame with an empty or absent sdp for a stream that has
\* a handler raises no error and changes no session and no stream.
EmptySdpIgnored ==
    [][\A c \in SessionIds, s \in StreamIds, sdp \in {Undefined, ""} :
          (/\ s \in Registry(c)
           /\ SetRemoteSDP(c, s, sdp))
          => /\ lastOp'.result = "ok"
             /\ UNCHANGED <<sessions, sess, strm, sent>>
             /\ fired' = <<>>]_vars

\* C15: every status update a handler receives, pushed by the server or made by
\* the teardown of the session, fires the stream's callback for the new status
\* if one is registered.
StatusCallbackFires ==
    [][\A c \in SessionIds, s \in StreamIds :
          /\ \A status \in PushStatuses, recordName \in RecordNames,
                w \in Widths, h \in Heights :
                (/\ s \in Registry(c)
                 /\ status \in strm[s].callbacks
                 /\ NotifyStreamStatusEvent(c, s, status, recordName, w, h))
                => \E i \in DOMAIN fired' : fired'[i] = StreamCallback(s, status)
          /\ (/\ lastOp'.op \in {"onerror", "onclose"}
              /\ lastOp'.id = c
              /\ s \in Registry(c)
              /\ "FAILED" \in strm[s].callbacks)
             => \E i \in DOMAIN fired' : fired'[i] = StreamCallback(s, "FAILED")]_vars

\* C16: a continuation of a negotiation that runs after its stream has a
\* terminal status, or after its session is FAILED or DISCONNECTED, transmits
\* nothing and changes neither the stream nor the session.
ContinuationAfterTeardown ==
    [][\A s \in StreamIds, step \in PlaySteps \cup PublishSteps :
          (/\ Resolve(s, step)
           /\ \/ strm[s].status_ \in StreamTerminal
              \/ sess[Owner(s)].sessionStatus \in SessionTerminal)
          => /\ out' = <<>>
             /\ sent' = sent
             /\ strm'[s].published_ = strm[s].published_
             /\ strm'[s].mediaConnection = strm[s].mediaConnection
             /\ strm'[s].status_ = strm[s].status_
             /\ sess' = sess
             /\ sessions' = sessions]_vars

SignalingFlags ==
    \A i \in DOMAIN out :
        /\ out[i].message = "playStream" => (~out[i].published /\ ~out[i].record)
        /\ out[i].message = "publishStream" => out[i].published

\* C19: a setRemoteSDP or status frame whose mediaSessionId has no handler is
\* dropped: no exception, no change to any session or stream, no callback and
\* nothing sent.
UnmatchedFrameDropped ==
    [][\A c \in SessionIds, id \in StreamIds :
          (id \notin Registry(c) /\ lastOp'.id = id) =>
             /\ \A sdp \in Sdps :
                   SetRemoteSDP(c, id, sdp)
                   => /\ lastOp'.result = NotFound
                      /\ UNCHANGED <<sessions, sess, strm, sent>>
                      /\ fired' = <<>>
                      /\ out' = <<>>
             /\ \A status \in PushStatuses, recordName \in RecordNames,
                   w \in Widths, h \in Heights :
                   NotifyStreamStatusEvent(c, id, status, recordName, w, h)
                   => /\ lastOp'.result = NotFound
                      /\ UNCHANGED <<sessions, sess, strm, sent>>
                      /\ fired' = <<>>
                      /\ out' = <<>>]_vars

UnmatchedFrameDroppedWitness ==
    /\ lastOp.op = "notifyStreamStatusEvent"
    /\ lastOp.result = NotFound
    /\ ~strm[lastOp.id].created
    /\ \E c \in SessionIds :
          /\ sess[c].sessionStatus = "ESTABLISHED"
          /\ sess[c].streams # {}

\* C20: a setRemoteSDP frame with a non-empty sdp for a stream that has a
\* handler leaves the stream's status, the stream table and the handler
\* registry as they were and fires no callback, with or without a media
\* connection; with one, the sdp is applied to it.
RemoteSdpFrame ==
    [][\A c \in SessionIds, s \in StreamIds, sdp \in Sdps \ {Undefined, ""} :
          (/\ s \in Registry(c)
           /\ SetRemoteSDP(c, s, sdp))
          => /\ strm'[s].status_ = strm[s].status_
             /\ UNCHANGED <<sessions, sess, sent>>
             /\ fired' = <<>>
             /\ out' = <<>>
             /\ strm[s].mediaConnection # Undefined
                   => (strm'[s].remoteSdp /\ lastOp'.result = "ok")]_vars

RemoteSdpFrameWitness ==
    /\ lastOp = Op("setRemoteSDP", lastOp.id, "ok")
    /\ \E s \in StreamIds :
          /\ lastOp.id = s
          /\ strm[s].mediaConnection = "open"
          /\ strm[s].remoteSdp
          /\ s \in Registry(Owner(s))

\* C21: in every state the ids of the stream table of a session are the ids
\* that have a handler in its registry.
StreamTableIsRegistry ==
    \A c \in SessionIds : sess[c].streams = Registry(c)

StreamTableIsRegistryWitness ==
    \E c \in SessionIds, s \in StreamIds, r \in StreamIds :
        /\ Owner(s) = c /\ Owner(r) = c
        /\ strm[s].status_ \in StreamTerminal
        /\ sess[c].streams = {r}
        /\ Registry(c) = {r}

\* C22: a stream callback that has fired was called for the status the stream
\* has, and one for FAILED, STOPPED or UNPUBLISHED was called with the stream
\* already out of the stream table and of the handler registry.
CallbackSeesStatus ==
    \A i \in DOMAIN fired :
        fired[i].kind = "stream" =>
            /\ strm[fired[i].id].status_ = fired[i].status
            /\ fired[i].status \in StreamTerminal =>
                  /\ getStream(Owner(fired[i].id), fired[i].id) = {}
                  /\ fired[i].id \notin Registry(Owner(fired[i].id))

CallbackSeesStatusWitness ==
    \E s \in StreamIds :
        /\ fired # <<>>
        /\ fired[1] = StreamCallback(s, "FAILED")
        /\ strm[s].status_ = "FAILED"
        /\ strm[s].mediaConnection = "closed"

\* the callbacks of session d and of its streams among those a job fired
CallbacksOf(log, d) ==
    {i \in DOMAIN log : \/ log[i].kind = "session" /\ log[i].id = d
                        \/ log[i].kind = "stream" /\ Owner(log[i].id) = d}

\* a transport event or an inbound frame of session c
EventOn(c) ==
    \/ WsError(c)
    \/ WsClose(c)
    \/ \E authToken \in Tokens : GetUserData(c, authToken)
    \/ \E id \in StreamIds, sdp \in Sdps : SetRemoteSDP(c, id, sdp)
    \/ \E id \in StreamIds, status \in PushStatuses, recordName \in RecordNames,
          w \in Widths, h \in Heights :
          NotifyStreamStatusEvent(c, id, status, recordName, w, h)

\* C23: a transport error or close, a status push, a setRemoteSDP or a
\* getUserData of one session leaves every other session as it was: its
\* status, stream table, handlers and callbacks, its place in sessions and its
\* streams, and fires none of its callbacks.
SessionsIsolated ==
    [][\A c \in SessionIds : \A d \in SessionIds \ {c} :
          (/\ lastOp'.op \in {"onerror", "onclose", "getUserData", "setRemoteSDP",
                              "notifyStreamStatusEvent"}
           /\ EventOn(c))
          => /\ sess'[d] = sess[d]
             /\ d \in sessions' <=> d \in sessions
             /\ \A s \in StreamIds : Owner(s) = d => strm'[s] = strm[s]
             /\ CallbacksOf(fired', d) = {}]_vars

SessionsIsolatedWitness ==
    /\ lastOp.op \in {"onerror", "onclose"}
    /\ \E c \in SessionIds, d \in SessionIds, s \in StreamIds, r \in StreamIds :
          /\ c # d
          /\ lastOp.id = c
          /\ sess[c].sessionStatus \in SessionTerminal
          /\ Owner(s) = c /\ strm[s].status_ = "FAILED"
          /\ d \in sessions
          /\ sess[d].sessionStatus = "ESTABLISHED"
          /\ Owner(r) = d /\ strm[r].status_ = "NEW"
          /\ strm[r].name_ = strm[s].name_
          /\ r \in Registry(d)

Init ==
    /\ sessions = {}
    /\ sess = [c \in SessionIds |-> NewSession]
    /\ strm = [s \in StreamIds |-> NoStream]
    /\ sent = EmptyBag
    /\ frames = 0
    /\ fired = <<>>
    /\ out = <<>>
    /\ lastOp = Op("init", NoId, "ok")
    /\ uuids = <<SessionIdSeq[1]>>

Next ==
    \/ CreateSession
    \/ \E c \in SessionIds, event \in SessionEvents : SessionOn(c, event)
    \/ \E c \in SessionIds : Disconnect(c)
    \/ \E c \in SessionIds, options \in StreamOptions : CreateStream(c, options)
    \/ \E s \in StreamIds, event \in StreamEvents : StreamOn(s, event)
    \/ \E s \in StreamIds : Play(s)
    \/ \E s \in StreamIds : Publish(s)
    \/ \E s \in StreamIds : Stop(s)
    \/ \E s \in StreamIds, step \in PlaySteps \cup PublishSteps : Resolve(s, step)
    \/ \E s \in StreamIds, step \in PlaySteps \cup PublishSteps : Reject(s, step)
    \/ \E c \in SessionIds : WsOpen(c)
    \/ \E c \in SessionIds : WsError(c)
    \/ \E c \in SessionIds : WsClose(c)
    \/ \E c \in SessionIds, authToken \in Tokens : GetUserData(c, authToken)
    \/ \E c \in SessionIds, id \in StreamIds, sdp \in Sdps : SetRemoteSDP(c, id, sdp)
    \/ \E c \in SessionIds, id \in StreamIds, status \in PushStatuses,
          recordName \in RecordNames, w \in Widths, h \in Heights :
            NotifyStreamStatusEvent(c, id, status, recordName, w, h)

Spec == Init /\ [][Next]_vars

\* The state after createSession, onopen, getUserData, createStream and
\* stream.on(FAILED): one ESTABLISHED session with one stream that has a
\* FAILED callback, and a second createSession to come.
InitTwo ==
    /\ sessions = {SessionIdSeq[1]}
    /\ sess = [c \in SessionIds |->
                 IF c = SessionIdSeq[1]
                 THEN [NewSession EXCEPT !.created = TRUE,
                                         !.sessionStatus = "ESTABLISHED",
                                         !.authToken = CHOOSE T \in Tokens : TRUE,
                                         !.ws = "OPEN",
                                         !.streams = {StreamIdSeq[1]},
                                         !.streamRefreshHandlers = <<StreamIdSeq[1]>>]
                 ELSE NewSession]
    /\ strm = [s \in StreamIds |->
                 IF s = StreamIdSeq[1]
                 THEN [NewStream(SessionIdSeq[1], CHOOSE n \in Names : TRUE, FALSE)
                          EXCEPT !.callbacks = {"FAILED"}]
                 ELSE NoStream]
    /\ sent = SetToBag({<<"connection", SessionIdSeq[1]>>})
    /\ frames = 0
    /\ fired = <<>>
    /\ out = <<>>
    /\ lastOp = Op("stream.on", StreamIdSeq[1], "ok")
    /\ uuids = <<SessionIdSeq[2]>>

SpecTwo == InitTwo /\ [][Next]_vars
====
